---- MODULE Spec2Model ----
(***************************************************************************)
(* Model of the Mendix model extractor (src/src/extractModel.ts with the   *)
(* configuration of src/config/apps.ts).  Strings are sequences of         *)
(* one-character strings, so that trimming, replacing, slicing and the     *)
(* decimal formatting of the suffix counter are computed, not assumed.     *)
(***************************************************************************)
EXTENDS Integers, Sequences, FiniteSets, TLC

\* ------------------------------------------------------------------------
\* Bounds of the model
\* ------------------------------------------------------------------------
MaxApps == 3

MaxCalls == 3

\* ------------------------------------------------------------------------
\* String helpers (JavaScript String semantics used by the source)
\* ------------------------------------------------------------------------
Rep(c, n) == [i \in 1..n |-> c]

Whitespace == {" ", "\t", "\n"}

Digits == <<"0", "1", "2", "3", "4", "5", "6", "7", "8", "9">>

RECURSIVE TrimStart(_)
TrimStart(s) ==
    IF s # <<>> /\ Head(s) \in Whitespace THEN TrimStart(Tail(s)) ELSE s

RECURSIVE TrimEnd(_)
TrimEnd(s) ==
    IF s # <<>> /\ s[Len(s)] \in Whitespace
    THEN TrimEnd(SubSeq(s, 1, Len(s) - 1))
    ELSE s

Trim(s) == TrimEnd(TrimStart(s))

\* String.prototype.slice(0, n) for n >= 0
Slice0(s, n) == SubSeq(s, 1, IF n < Len(s) THEN n ELSE Len(s))

Min(a, b) == IF a < b THEN a ELSE b

\* Template literal formatting of a positive integer counter
RECURSIVE NumberToString(_)
NumberToString(n) ==
    IF n < 10 THEN <<Digits[n + 1]>>
    ELSE NumberToString(n \div 10) \o <<Digits[(n % 10) + 1]>>

\* ------------------------------------------------------------------------
\* generateUniqueWorksheetName
\* ------------------------------------------------------------------------
SheetNameLimit == 31

invalidChars == {"\\", "/", "*", "[", "]", ":", "?"}

ReplaceInvalid(s) ==
    [i \in 1..Len(s) |-> IF s[i] \in invalidChars THEN "_" ELSE s[i]]

Sanitize(appName) ==
    LET replaced == ReplaceInvalid(Trim(appName))
        nonEmpty == IF Len(replaced) = 0 THEN <<"S", "h", "e", "e", "t">> ELSE replaced
    IN  Slice0(nonEmpty, SheetNameLimit)

\* variant: the base is not shortened to make room for the suffix
SuffixedCandidateNotShortened(sanitized, counter) ==
    sanitized \o <<"_">> \o NumberToString(counter)

SuffixedCandidate(sanitized, counter) ==
    LET suffix == <<"_">> \o NumberToString(counter)
        baseLength == Min(SheetNameLimit - Len(suffix), Len(sanitized))
    IN  Slice0(sanitized, baseLength) \o suffix

RECURSIVE NextFreeCandidate(_, _, _, _)
NextFreeCandidate(sanitized, candidate, counter, usedNames) ==
    IF candidate \in usedNames
    THEN NextFreeCandidate(sanitized, SuffixedCandidate(sanitized, counter),
                           counter + 1, usedNames)
    ELSE candidate

generateUniqueWorksheetName(appName, usedNames) ==
    LET sanitized == Sanitize(appName)
    IN  NextFreeCandidate(sanitized, sanitized, 1, usedNames)

\* ------------------------------------------------------------------------
\* Object.entries(appConfigurations): own-property enumeration order
\* ------------------------------------------------------------------------
DigitSet == {Digits[i] : i \in 1..10}

DigitValue(c) == CHOOSE d \in 0..9 : Digits[d + 1] = c

RECURSIVE LexLess(_, _)
LexLess(a, b) ==
    IF a = <<>> \/ b = <<>> THEN FALSE
    ELSE IF Head(a) # Head(b) THEN DigitValue(Head(a)) < DigitValue(Head(b))
    ELSE LexLess(Tail(a), Tail(b))

\* numeric order of two canonical decimal strings
NumericLess(a, b) ==
    Len(a) < Len(b) \/ (Len(a) = Len(b) /\ LexLess(a, b))

MaxArrayIndex == <<"4", "2", "9", "4", "9", "6", "7", "2", "9", "4">>

\* a property key that is a canonical array index ("0", "7", "10", ...)
IsArrayIndex(key) ==
    /\ Len(key) > 0
    /\ \A i \in 1..Len(key) : key[i] \in DigitSet
    /\ (Len(key) > 1 => key[1] # "0")
    /\ ~NumericLess(MaxArrayIndex, key)

RECURSIVE AscendingIndexKeys(_)
AscendingIndexKeys(keys) ==
    IF keys = {} THEN <<>>
    ELSE LET least == CHOOSE k \in keys : \A o \in keys \ {k} : NumericLess(k, o)
         IN  <<least>> \o AscendingIndexKeys(keys \ {least})

\* variant: every key is enumerated in declaration order
ObjectEntriesAsDeclared(declared) == declared

ObjectEntries(declared) ==
    LET indexKeys == {declared[i] : i \in {j \in 1..Len(declared) : IsArrayIndex(declared[j])}}
        IsNamedKey(k) == ~IsArrayIndex(k)
    IN  AscendingIndexKeys(indexKeys) \o SelectSeq(declared, IsNamedKey)

\* ------------------------------------------------------------------------
\* getAttributeType and isNonPersistableEntity
\* ------------------------------------------------------------------------
getAttributeType(attribute) ==
    LET type == attribute.type IN
    CASE type = "StringAttributeType"       -> "String"
      [] type = "IntegerAttributeType"      -> "Integer"
      [] type = "LongAttributeType"         -> "Long"
      [] type = "DecimalAttributeType"      -> "Decimal"
      [] type = "BooleanAttributeType"      -> "Boolean"
      [] type = "DateTimeAttributeType"     -> "DateTime"
      [] type = "EnumerationAttributeType"  -> "Enumeration"
      [] type = "BinaryAttributeType"       -> "Binary"
      [] type = "HashedStringAttributeType" -> "HashedString"
      [] type = "AutoNumberAttributeType"   -> "AutoNumber"
      [] OTHER                              -> "Unknown"

\* variant: the persistence flag is not tested
isNonPersistableIgnoringFlag(entity) ==
    entity.generalization.kind = "NoGeneralization"

\* variant: the kind of generalization is not tested
isNonPersistableIgnoringKind(entity) ==
    entity.generalization.persistable = FALSE

isNonPersistableEntity(entity) ==
    LET generalization == entity.generalization IN
    IF generalization.kind = "NoGeneralization"
    THEN generalization.persistable = FALSE
    ELSE FALSE

\* ------------------------------------------------------------------------
\* Inputs of a run: configuration keys, token files, model snapshots
\* ------------------------------------------------------------------------
AppNames ==
    { <<"a", "/", "b">>,
      <<"a", "_", "b">>,
      <<"7">>,
      <<"1", "0">> }

\* appConfigurations: the keys of the object literal, in declaration order
Configurations ==
    UNION { {c \in [1..n -> AppNames] : \A i, j \in 1..n : i # j => c[i] # c[j]}
            : n \in 0..MaxApps }

TokenFiles ==
    { [exists |-> FALSE, content |-> <<>>],
      [exists |-> TRUE,  content |-> <<>>],
      [exists |-> TRUE,  content |-> <<" ", "\n">>],
      [exists |-> TRUE,  content |-> <<"t", "k", "\n">>] }

NoGen(p) == [kind |-> "NoGeneralization", persistable |-> p]

Gen(p) == [kind |-> "Generalization", persistable |-> p]

Attr(n, t) == [name |-> n, type |-> t]

Ent(n, g, attrs) == [name |-> n, generalization |-> g, attributes |-> attrs]

Mod(n, ents) == [name |-> n, entities |-> ents]

SnapshotTwoModules ==
    << Mod("M1", << Ent("E1", NoGen(FALSE),
                        << Attr("a1", "StringAttributeType"),
                           Attr("a2", "IntegerAttributeType") >>),
                    Ent("E2", NoGen(TRUE),
                        << Attr("b1", "LongAttributeType") >>),
                    Ent("E3", Gen(FALSE),
                        << Attr("c1", "BooleanAttributeType") >>) >>),
       Mod("M2", << Ent("E4", Gen(TRUE),
                        << Attr("d1", "DecimalAttributeType") >>),
                    Ent("E5", NoGen(FALSE),
                        << Attr("e1", "ObjectReferenceType"),
                           Attr("e2", "EnumerationAttributeType"),
                           Attr("e3", "DateTimeAttributeType") >>) >>) >>

SnapshotOneModule ==
    << Mod("M3", << Ent("E6", NoGen(FALSE),
                        << Attr("f1", "BinaryAttributeType"),
                           Attr("f2", "HashedStringAttributeType"),
                           Attr("f3", "AutoNumberAttributeType"),
                           Attr("f4", "LongAttributeType"),
                           Attr("f5", "DecimalAttributeType"),
                           Attr("f6", "BooleanAttributeType") >>),
                    Ent("E7", NoGen(FALSE), << >>) >>) >>

Snapshots == {SnapshotTwoModules, SnapshotOneModule}

\* ------------------------------------------------------------------------
\* Rows appended while walking one loaded module (lines 98-117)
\* ------------------------------------------------------------------------
EntityRows(moduleName, entity) ==
    [i \in 1..Len(entity.attributes) |->
        [moduleName    |-> moduleName,
         entityName    |-> entity.name,
         attributeName |-> entity.attributes[i].name,
         attributeType |-> getAttributeType(entity.attributes[i])]]

RECURSIVE EntitiesRows(_, _)
EntitiesRows(moduleName, entities) ==
    IF entities = <<>> THEN <<>>
    ELSE (IF ~isNonPersistableEntity(Head(entities))
          THEN <<>>
          ELSE EntityRows(moduleName, Head(entities)))
         \o EntitiesRows(moduleName, Tail(entities))

ModuleRows(dm) == EntitiesRows(dm.name, dm.entities)

HeaderColumns == <<"moduleName", "entityName", "attributeName", "attributeType">>

NewWorksheet(worksheetName) ==
    [name |-> worksheetName, columns |-> HeaderColumns, headerBold |-> TRUE, rows |-> <<>>]

\* ------------------------------------------------------------------------
\* State
\* ------------------------------------------------------------------------
VARIABLES
    pc,                  \* position of main(): the await it is suspended at
    appConfigurations,   \* declared keys of the configuration object
    tokenFile,           \* config/token.txt
    platformToken,       \* value returned by readPlatformToken, <<>> before
    appIndex,            \* position of the for-of loop in Object.entries
    failures,            \* failures: string[]
    workbook,            \* worksheets of the ExcelJS workbook, in creation order
    usedWorksheetNames,  \* Set<string> shared by all extractions
    model,               \* allDomainModels() of the application being extracted
    moduleIndex,         \* position of the module loop
    exitCode,            \* process exit status, -1 while running
    outputFile,          \* results/mendix_model_export.xlsx
    writeAttempts,       \* calls of workbook.xlsx.writeFile
    invocations,         \* names passed to extractApplication, in call order
    completed,           \* names whose extractApplication returned normally
    opened,              \* [app, model] of every successful openModel
    filterResults,       \* (generalization, result) of every filter evaluation
    allocated            \* names returned by generateUniqueWorksheetName

vars == <<pc, appConfigurations, tokenFile, platformToken, appIndex, failures,
          workbook, usedWorksheetNames, model, moduleIndex, exitCode,
          outputFile, writeAttempts, invocations, completed, opened,
          filterResults, allocated>>

entries == ObjectEntries(appConfigurations)

appName == entries[appIndex]

Init ==
    /\ pc = "start"
    /\ appConfigurations \in Configurations
    /\ tokenFile \in TokenFiles
    /\ platformToken = <<>>
    /\ appIndex = 0
    /\ failures = <<>>
    /\ workbook = <<>>
    /\ usedWorksheetNames = {}
    /\ model = <<>>
    /\ moduleIndex = 0
    /\ exitCode = -1
    /\ outputFile = [written |-> FALSE, sheets |-> <<>>]
    /\ writeAttempts = 0
    /\ invocations = <<>>
    /\ completed = <<>>
    /\ opened = <<>>
    /\ filterResults = {}
    /\ allocated = <<>>

\* ------------------------------------------------------------------------
\* main(): start-up (lines 22-32) and the top-level catch (lines 195-198)
\* ------------------------------------------------------------------------
EnsureDirectory ==
    /\ pc = "start"
    /\ pc' = "readToken"
    /\ UNCHANGED <<appConfigurations, tokenFile, platformToken, appIndex,
                   failures, workbook, usedWorksheetNames, model, moduleIndex,
                   exitCode, outputFile, writeAttempts, invocations, completed,
                   opened, filterResults, allocated>>

\* fs.mkdirSync throws: the rejection of main() reaches main().catch
EnsureDirectoryThrows ==
    /\ pc = "start"
    /\ pc' = "exited"
    /\ exitCode' = 1
    /\ UNCHANGED <<appConfigurations, tokenFile, platformToken, appIndex,
                   failures, workbook, usedWorksheetNames, model, moduleIndex,
                   outputFile, writeAttempts, invocations, completed, opened,
                   filterResults, allocated>>

\* variant: the content is not trimmed before the emptiness test
TokenIsEmptyUntrimmed(content) == content = <<>>

TokenIsEmpty(content) == Trim(content) = <<>>

ReadTokenMissing ==
    /\ pc = "readToken"
    /\ ~tokenFile.exists
    /\ pc' = "exited"
    /\ exitCode' = 1
    /\ UNCHANGED <<appConfigurations, tokenFile, platformToken, appIndex,
                   failures, workbook, usedWorksheetNames, model, moduleIndex,
                   outputFile, writeAttempts, invocations, completed, opened,
                   filterResults, allocated>>

ReadTokenEmpty ==
    /\ pc = "readToken"
    /\ tokenFile.exists
    /\ TokenIsEmpty(tokenFile.content)
    /\ pc' = "exited"
    /\ exitCode' = 1
    /\ UNCHANGED <<appConfigurations, tokenFile, platformToken, appIndex,
                   failures, workbook, usedWorksheetNames, model, moduleIndex,
                   outputFile, writeAttempts, invocations, completed, opened,
                   filterResults, allocated>>

\* token returned, setPlatformConfig, failures/workbook/usedWorksheetNames created
ReadTokenOK ==
    /\ pc = "readToken"
    /\ tokenFile.exists
    /\ ~TokenIsEmpty(tokenFile.content)
    /\ platformToken' = Trim(tokenFile.content)
    /\ failures' = <<>>
    /\ workbook' = <<>>
    /\ usedWorksheetNames' = {}
    /\ appIndex' = 1
    /\ pc' = "loop"
    /\ UNCHANGED <<appConfigurations, tokenFile, model, moduleIndex, exitCode,
                   outputFile, writeAttempts, invocations, completed, opened,
                   filterResults, allocated>>

\* ------------------------------------------------------------------------
\* main(): the loop over the applications (lines 34-41)
\* ------------------------------------------------------------------------
\* variant: the loop is left at the first failure
LoopDoneAtFirstFailure == appIndex > Len(entries) \/ failures # <<>>

LoopDone == appIndex > Len(entries)

\* next iteration: extractApplication is called and runs up to its first await
BeginExtraction ==
    /\ pc = "loop"
    /\ ~LoopDone
    /\ invocations' = Append(invocations, appName)
    /\ pc' = "createWorkingCopy"
    /\ UNCHANGED <<appConfigurations, tokenFile, platformToken, appIndex,
                   failures, workbook, usedWorksheetNames, model, moduleIndex,
                   exitCode, outputFile, writeAttempts, completed, opened,
                   filterResults, allocated>>

\* variant: the error is swallowed without recording the name
CatchWithoutRecording ==
    /\ appIndex' = appIndex + 1
    /\ model' = <<>>
    /\ moduleIndex' = 0
    /\ pc' = "loop"
    /\ UNCHANGED <<appConfigurations, tokenFile, platformToken, failures,
                   workbook, usedWorksheetNames, exitCode, outputFile,
                   writeAttempts, invocations, completed, opened,
                   filterResults, allocated>>

\* variant: the worksheet of the failed application is taken back
CatchWithRollback ==
    /\ failures' = Append(failures, appName)
    /\ appIndex' = appIndex + 1
    /\ model' = <<>>
    /\ moduleIndex' = 0
    /\ pc' = "loop"
    /\ workbook' = IF pc = "modules"
                   THEN SubSeq(workbook, 1, Len(workbook) - 1)
                   ELSE workbook
    /\ UNCHANGED <<appConfigurations, tokenFile, platformToken,
                   usedWorksheetNames, exitCode, outputFile, writeAttempts,
                   invocations, completed, opened, filterResults, allocated>>

\* catch (error) { failures.push(appName); reportExtractionFailure(...) }
CatchExtractionError ==
    /\ failures' = Append(failures, appName)
    /\ appIndex' = appIndex + 1
    /\ model' = <<>>
    /\ moduleIndex' = 0
    /\ pc' = "loop"
    /\ UNCHANGED <<appConfigurations, tokenFile, platformToken, workbook,
                   usedWorksheetNames, exitCode, outputFile, writeAttempts,
                   invocations, completed, opened, filterResults, allocated>>

\* ------------------------------------------------------------------------
\* extractApplication (lines 60-120)
\* ------------------------------------------------------------------------
WorkingCopyCreated ==
    /\ pc = "createWorkingCopy"
    /\ pc' = "openModel"
    /\ UNCHANGED <<appConfigurations, tokenFile, platformToken, appIndex,
                   failures, workbook, usedWorksheetNames, model, moduleIndex,
                   exitCode, outputFile, writeAttempts, invocations, completed,
                   opened, filterResults, allocated>>

WorkingCopyFails ==
    /\ pc = "createWorkingCopy"
    /\ CatchExtractionError

\* variant: no worksheet is added when the model is opened
WorkbookWithoutNewSheet(wb, worksheetName) == wb

WorkbookAfterOpen(wb, worksheetName) == Append(wb, NewWorksheet(worksheetName))

\* openModel resolves; the worksheet is named and added; first module is awaited
ModelOpened(snapshot) ==
    /\ pc = "openModel"
    /\ LET worksheetName == generateUniqueWorksheetName(appName, usedWorksheetNames)
       IN  /\ usedWorksheetNames' = usedWorksheetNames \cup {worksheetName}
           /\ allocated' = Append(allocated, worksheetName)
           /\ workbook' = WorkbookAfterOpen(workbook, worksheetName)
    /\ opened' = Append(opened, [app |-> appName, model |-> snapshot])
    /\ model' = snapshot
    /\ moduleIndex' = 1
    /\ pc' = "modules"
    /\ UNCHANGED <<appConfigurations, tokenFile, platformToken, appIndex,
                   failures, exitCode, outputFile, writeAttempts, invocations,
                   completed, filterResults>>

OpenModelFails ==
    /\ pc = "openModel"
    /\ CatchExtractionError

\* dm.load() resolves: the rows of the module are added to the last worksheet
ModuleLoaded ==
    /\ pc = "modules"
    /\ moduleIndex <= Len(model)
    /\ LET dm == model[moduleIndex]
           sheet == workbook[Len(workbook)]
       IN  /\ workbook' = [workbook EXCEPT ![Len(workbook)] =
                              [sheet EXCEPT !.rows = sheet.rows \o ModuleRows(dm)]]
           /\ filterResults' = filterResults \cup
                  { [generalization |-> dm.entities[i].generalization,
                     result |-> isNonPersistableEntity(dm.entities[i])]
                    : i \in 1..Len(dm.entities) }
    /\ moduleIndex' = moduleIndex + 1
    /\ UNCHANGED <<pc, appConfigurations, tokenFile, platformToken, appIndex,
                   failures, usedWorksheetNames, model, exitCode, outputFile,
                   writeAttempts, invocations, completed, opened, allocated>>

ModuleLoadFails ==
    /\ pc = "modules"
    /\ moduleIndex <= Len(model)
    /\ CatchExtractionError

\* the module loop is exhausted: extractApplication returns normally
ExtractionComplete ==
    /\ pc = "modules"
    /\ moduleIndex > Len(model)
    /\ completed' = Append(completed, appName)
    /\ appIndex' = appIndex + 1
    /\ model' = <<>>
    /\ moduleIndex' = 0
    /\ pc' = "loop"
    /\ UNCHANGED <<appConfigurations, tokenFile, platformToken, failures,
                   workbook, usedWorksheetNames, exitCode, outputFile,
                   writeAttempts, invocations, opened, filterResults, allocated>>

\* ------------------------------------------------------------------------
\* main(): writing the workbook and the exit status (lines 43-58)
\* ------------------------------------------------------------------------
WriteWorkbook ==
    /\ pc = "loop"
    /\ LoopDone
    /\ writeAttempts' = writeAttempts + 1
    /\ pc' = "writeFile"
    /\ UNCHANGED <<appConfigurations, tokenFile, platformToken, appIndex,
                   failures, workbook, usedWorksheetNames, model, moduleIndex,
                   exitCode, outputFile, invocations, completed, opened,
                   filterResults, allocated>>

WriteFails ==
    /\ pc = "writeFile"
    /\ exitCode' = 1
    /\ pc' = "exited"
    /\ UNCHANGED <<appConfigurations, tokenFile, platformToken, appIndex,
                   failures, workbook, usedWorksheetNames, model, moduleIndex,
                   outputFile, writeAttempts, invocations, completed, opened,
                   filterResults, allocated>>

\* variant: the failures are not looked at after the write
ExitStatusIgnoringFailures(failed) == 0

ExitStatusAfterWrite(failed) == IF Len(failed) > 0 THEN 1 ELSE 0

WriteSucceeds ==
    /\ pc = "writeFile"
    /\ outputFile' = [written |-> TRUE, sheets |-> workbook]
    /\ exitCode' = ExitStatusAfterWrite(failures)
    /\ pc' = "exited"
    /\ UNCHANGED <<appConfigurations, tokenFile, platformToken, appIndex,
                   failures, workbook, usedWorksheetNames, model, moduleIndex,
                   writeAttempts, invocations, completed, opened,
                   filterResults, allocated>>

Next ==
    \/ EnsureDirectory
    \/ EnsureDirectoryThrows
    \/ ReadTokenMissing
    \/ ReadTokenEmpty
    \/ ReadTokenOK
    \/ BeginExtraction
    \/ WorkingCopyCreated
    \/ WorkingCopyFails
    \/ \E snapshot \in Snapshots : ModelOpened(snapshot)
    \/ OpenModelFails
    \/ ModuleLoaded
    \/ ModuleLoadFails
    \/ ExtractionComplete
    \/ WriteWorkbook
    \/ WriteFails
    \/ WriteSucceeds

Spec == Init /\ [][Next]_vars

TypeOK ==
    /\ pc \in {"start", "readToken", "loop", "createWorkingCopy", "openModel",
               "modules", "writeFile", "exited", "namer"}
    /\ exitCode \in {-1, 0, 1}
    /\ writeAttempts \in 0..1

\* ------------------------------------------------------------------------
\* The Worksheet Namer on its own: calls on one shared used-names set
\* ------------------------------------------------------------------------
Range(f) == {f[i] : i \in DOMAIN f}

NamerInputs ==
    { <<>>,
      <<" ", "\t">>,
      <<"S", "h", "e", "e", "t">>,
      <<"S", "h", "e", "e", "t", "_", "1">>,
      <<"S", "h", "e", "e", "t", "_", "1", "0">>,
      <<" ", "a", "[", "b", "]", " ">>,
      <<"a", "_", "b", "_">>,
      <<"\\", ":", "?">>,
      <<"*", "/", "_">>,
      <<"a", "/", "b">>,
      <<"a", "_", "b">>,
      <<"a", "_", "b", "_", "1">>,
      Rep("x", 31),
      Rep("x", 40),
      Rep("x", 29) \o <<"_", "1">>,
      Rep("x", 30) \o <<"/", "y", "y">> }

\* ten blank keys, "", " ", "  ", ...: every one of them is named after "Sheet"
BlankNames == [i \in 1..10 |-> Rep(" ", i - 1)]

RECURSIVE AllocateAll(_, _)
AllocateAll(names, returned) ==
    IF names = <<>> THEN returned
    ELSE AllocateAll(Tail(names),
                     Append(returned,
                            generateUniqueWorksheetName(Head(names), Range(returned))))

InitNamer ==
    /\ pc = "namer"
    /\ appConfigurations = <<>>
    /\ tokenFile = [exists |-> TRUE, content |-> <<"t", "k", "\n">>]
    /\ platformToken = <<"t", "k">>
    /\ appIndex = 0
    /\ failures = <<>>
    /\ workbook = <<>>
    /\ invocations \in {<<>>, BlankNames}
    /\ allocated = AllocateAll(invocations, <<>>)
    /\ usedWorksheetNames = Range(allocated)
    /\ model = <<>>
    /\ moduleIndex = 0
    /\ exitCode = -1
    /\ outputFile = [written |-> FALSE, sheets |-> <<>>]
    /\ writeAttempts = 0
    /\ completed = <<>>
    /\ opened = <<>>
    /\ filterResults = {}

NamerCall(name) ==
    /\ pc = "namer"
    /\ appIndex < MaxCalls
    /\ LET worksheetName == generateUniqueWorksheetName(name, usedWorksheetNames)
       IN  /\ usedWorksheetNames' = usedWorksheetNames \cup {worksheetName}
           /\ allocated' = Append(allocated, worksheetName)
    /\ invocations' = Append(invocations, name)
    /\ appIndex' = appIndex + 1
    /\ UNCHANGED <<pc, appConfigurations, tokenFile, platformToken, failures,
                   workbook, model, moduleIndex, exitCode, outputFile,
                   writeAttempts, completed, opened, filterResults>>

NextNamer == \E name \in NamerInputs : NamerCall(name)

SpecNamer == InitNamer /\ [][NextNamer]_vars

\* ------------------------------------------------------------------------
\* Properties
\* ------------------------------------------------------------------------

\* C5: every name returned by generateUniqueWorksheetName has at most 31
\* characters, contains none of \ / * [ ] : ? and differs from every name
\* returned earlier on the same used-names set.
WorksheetNamerGuarantee ==
    \A i \in 1..Len(allocated) :
        /\ Len(allocated[i]) <= 31
        /\ \A k \in 1..Len(allocated[i]) :
               allocated[i][k] \notin {"\\", "/", "*", "[", "]", ":", "?"}
        /\ \A j \in 1..(i - 1) : allocated[j] # allocated[i]

\* a name longer than 31 characters collided twice and got a re-truncated "_2"
WorksheetNamerWitness ==
    \E i \in 1..Len(allocated) :
        /\ Len(invocations[i]) > 31
        /\ allocated[i] = Rep("x", 29) \o <<"_", "2">>

\* an eleventh blank name got the two-digit suffix
WorksheetNamerTwoDigits ==
    \E i \in 1..Len(allocated) : allocated[i] = <<"S", "h", "e", "e", "t", "_", "1", "1">>

IsPrefix(a, b) == Len(a) <= Len(b) /\ SubSeq(b, 1, Len(a)) = a

NoDuplicates(q) == \A i, j \in 1..Len(q) : i # j => q[i] # q[j]

InExtraction == pc \in {"createWorkingCopy", "openModel", "modules"}

BetweenExtractions == pc \in {"loop", "writeFile"} \/ (pc = "exited" /\ writeAttempts > 0)

\* C1: every configured application is passed to extractApplication exactly
\* once per run whatever happened to the ones before it; an extraction that
\* raised an error is caught and its name recorded, and after the loop the
\* failures hold exactly the names whose extraction raised an error, each once.
FaultIsolation ==
    /\ NoDuplicates(invocations)
    /\ NoDuplicates(failures)
    /\ Range(failures) \subseteq Range(invocations) \ Range(completed)
    /\ BetweenExtractions =>
           Range(failures) = Range(invocations) \ Range(completed)
    /\ writeAttempts > 0 =>
           \A a \in Range(appConfigurations) :
               Cardinality({i \in 1..Len(invocations) : invocations[i] = a}) = 1

\* the first application failed and a later one was still extracted
FaultIsolationWitness ==
    /\ pc = "exited"
    /\ Len(invocations) >= 2
    /\ invocations[1] \in Range(failures)
    /\ invocations[2] \in Range(completed)

\* C2: the exit status is 0 exactly when the token was read, every configured
\* application was extracted without error and the workbook was written; in
\* every other terminated run it is non-zero.
ExitStatusContract ==
    /\ pc # "exited" => exitCode = -1
    /\ pc = "exited" =>
           /\ exitCode \in {0, 1}
           /\ exitCode = 0 <=>
                  /\ platformToken # <<>>
                  /\ Range(appConfigurations) \subseteq Range(completed)
                  /\ failures = <<>>
                  /\ outputFile.written

ExitStatusWitness ==
    /\ pc = "exited"
    /\ exitCode = 0
    /\ Len(completed) >= 2

\* C3: after the token was read the workbook write is attempted exactly once,
\* only after every configured application was attempted, also when there are
\* failures; a failed write ends the run with status 1 whatever the failures
\* are, and a run with failures ends with status 1 only after the write.
WriteOrdering ==
    /\ writeAttempts <= 1
    /\ writeAttempts = 1 =>
           /\ platformToken # <<>>
           /\ ~InExtraction
           /\ Range(appConfigurations) = Range(completed) \cup Range(failures)
    /\ (pc = "exited" /\ platformToken # <<>>) => writeAttempts = 1
    /\ (pc = "exited" /\ writeAttempts = 1 /\ ~outputFile.written) => exitCode = 1
    /\ (exitCode = 1 /\ failures # <<>>) => writeAttempts = 1
    /\ (pc = "exited" /\ outputFile.written /\ failures # <<>>) => exitCode = 1

WriteOrderingWitness ==
    /\ pc = "exited"
    /\ failures # <<>>
    /\ completed # <<>>
    /\ outputFile.written
    /\ exitCode = 1

BlankContent(content) == \A i \in 1..Len(content) : content[i] \in {" ", "\t", "\n"}

\* C4: with the token file absent, or empty after trimming, the run ends with
\* a non-zero status and nothing else happened: no extraction was started, no
\* worksheet exists, there are no failures and the workbook is never written.
ConfigurationError ==
    (~tokenFile.exists \/ BlankContent(tokenFile.content)) =>
        /\ pc \in {"start", "readToken", "exited"}
        /\ pc = "exited" => exitCode = 1
        /\ invocations = <<>>
        /\ opened = <<>>
        /\ workbook = <<>>
        /\ failures = <<>>
        /\ writeAttempts = 0
        /\ ~outputFile.written

ConfigurationErrorWitness ==
    /\ pc = "exited"
    /\ tokenFile.exists
    /\ tokenFile.content # <<>>
    /\ BlankContent(tokenFile.content)
    /\ appConfigurations # <<>>

OpenedApps == {opened[i].app : i \in 1..Len(opened)}

FilterPasses(entity) ==
    /\ entity.generalization.kind = "NoGeneralization"
    /\ entity.generalization.persistable = FALSE

TypeLabel(type) ==
    LET table == [StringAttributeType       |-> "String",
                  IntegerAttributeType      |-> "Integer",
                  LongAttributeType         |-> "Long",
                  DecimalAttributeType      |-> "Decimal",
                  BooleanAttributeType      |-> "Boolean",
                  DateTimeAttributeType     |-> "DateTime",
                  EnumerationAttributeType  |-> "Enumeration",
                  BinaryAttributeType       |-> "Binary",
                  HashedStringAttributeType |-> "HashedString",
                  AutoNumberAttributeType   |-> "AutoNumber"]
    IN  IF type \in DOMAIN table THEN table[type] ELSE "Unknown"

RECURSIVE Flatten(_)
Flatten(seqs) == IF seqs = <<>> THEN <<>> ELSE Head(seqs) \o Flatten(Tail(seqs))

ExpectedRows(snapshot) ==
    Flatten([m \in 1..Len(snapshot) |->
        Flatten([e \in 1..Len(snapshot[m].entities) |->
            LET entity == snapshot[m].entities[e] IN
            IF FilterPasses(entity)
            THEN [a \in 1..Len(entity.attributes) |->
                     [moduleName    |-> snapshot[m].name,
                      entityName    |-> entity.name,
                      attributeName |-> entity.attributes[a].name,
                      attributeType |-> TypeLabel(entity.attributes[a].type)]]
            ELSE <<>>])])

\* C7: at every point the data rows of a worksheet are a prefix of R, the rows
\* of the filtered entities in snapshot order with the classified type, and
\* once extractApplication returned normally they are R exactly.
WorksheetRows ==
    \A i \in 1..Len(workbook) :
        /\ i <= Len(opened)
        /\ IsPrefix(workbook[i].rows, ExpectedRows(opened[i].model))
        /\ opened[i].app \in Range(completed) =>
               workbook[i].rows = ExpectedRows(opened[i].model)

\* a two-module snapshot was extracted completely, with an unrecognized type
WorksheetRowsWitness ==
    \E i \in 1..Len(workbook) :
        /\ opened[i].app \in Range(completed)
        /\ Len(opened[i].model) = 2
        /\ Len(workbook[i].rows) = 5
        /\ workbook[i].rows[3].attributeType = "Unknown"
        /\ workbook[i].rows[3].moduleName = "M2"

\* C8: isNonPersistableEntity returns true exactly for an entity with no
\* generalization whose persistence flag is false, and the same entity always
\* gets the same result.
EntityFilterContract ==
    /\ \A r \in filterResults :
           r.result = (r.generalization.kind = "NoGeneralization"
                       /\ r.generalization.persistable = FALSE)
    /\ \A r1, r2 \in filterResults :
           r1.generalization = r2.generalization => r1.result = r2.result

\* all four combinations of generalization and persistence flag were filtered
EntityFilterWitness ==
    /\ \A k \in {"NoGeneralization", "Generalization"} : \A p \in BOOLEAN :
           \E r \in filterResults :
               r.generalization = [kind |-> k, persistable |-> p]
    /\ \E r \in filterResults : r.result
    /\ Len(completed) >= 2

DeclaredPosition(key) == CHOOSE i \in 1..Len(appConfigurations) : appConfigurations[i] = key

\* enumeration order of two distinct keys of the configuration object
EnumeratedBefore(a, b) ==
    IF IsArrayIndex(a) /\ IsArrayIndex(b) THEN NumericLess(a, b)
    ELSE IF IsArrayIndex(a) \/ IsArrayIndex(b) THEN IsArrayIndex(a)
    ELSE DeclaredPosition(a) < DeclaredPosition(b)

InEnumerationOrder(q) ==
    \A i, j \in 1..Len(q) : i < j => EnumeratedBefore(q[i], q[j])

OneAtATime ==
    Len(invocations) = Len(completed) + Len(failures) + (IF InExtraction THEN 1 ELSE 0)

\* C9 as stated: for every set of keys the applications are extracted one at
\* a time in the order in which the configuration declares them.
DeclarationOrder ==
    /\ OneAtATime
    /\ IsPrefix(invocations, appConfigurations)

\* C9 amended: the applications are extracted one at a time in the order in
\* which Object.entries enumerates the configuration: keys that are canonical
\* array indices first, in ascending numeric order, then the other keys in
\* declaration order; worksheets are created and names enter the failures in
\* that same order.
EnumerationOrder ==
    /\ OneAtATime
    /\ Range(invocations) \subseteq Range(appConfigurations)
    /\ InEnumerationOrder(invocations)
    /\ \A k \in Range(appConfigurations) : \A a \in Range(invocations) :
           (k # a /\ EnumeratedBefore(k, a)) => k \in Range(invocations)
    /\ InEnumerationOrder([i \in 1..Len(opened) |-> opened[i].app])
    /\ InEnumerationOrder(failures)
    /\ InEnumerationOrder(completed)

\* a named key declared first was extracted after two array-index keys that
\* are in numeric, not textual and not declared, order
EnumerationOrderWitness ==
    /\ pc = "exited"
    /\ appConfigurations = << <<"a", "/", "b">>, <<"1", "0">>, <<"7">> >>
    /\ invocations = << <<"7">>, <<"1", "0">>, <<"a", "/", "b">> >>
    /\ Len(opened) >= 2
    /\ Len(failures) >= 2

\* C10: a failed extraction takes nothing back: the worksheets, their rows and
\* the used names are unchanged by the failure handling, which only adds the
\* name to the failures, and the workbook that is written holds the rows.
NoPartialRollback ==
    /\ [][(InExtraction /\ pc' = "loop" /\ completed' = completed) =>
             /\ workbook' = workbook
             /\ usedWorksheetNames' = usedWorksheetNames
             /\ allocated' = allocated
             /\ failures' = Append(failures, appName)
             /\ outputFile' = outputFile]_vars
    /\ [](outputFile.written => outputFile.sheets = workbook)
    /\ [](\A i \in 1..Len(allocated) : allocated[i] \in usedWorksheetNames)

\* the written workbook holds the partial rows of an application that failed
\* while loading its second module
NoPartialRollbackWitness ==
    /\ pc = "exited"
    /\ outputFile.written
    /\ \E i \in 1..Len(opened) :
           /\ opened[i].app \in Range(failures)
           /\ Len(opened[i].model) = 2
           /\ Len(outputFile.sheets[i].rows) = 2

====
